---- MODULE Spec2Model ----
(***************************************************************************)
(* Token lifecycle and paginated fetching of two integrations:             *)
(*   ServiceNowApiModule.py      (ServiceNowClient)                        *)
(*   CiscoWebexEventCollector.py (Client, AdminClient,                     *)
(*                                ComplianceOfficerClient, fetch helpers)  *)
(* The two integrations are separate programs, each with its own persisted *)
(* integration context; a behaviour describes one of them (integration).   *)
(* Time is counted in microseconds (datetime resolution).                  *)
(***************************************************************************)
EXTENDS Integers, Sequences, FiniteSets, TLC

VARIABLES
    integration,  \* which program the behaviour describes
    now,          \* wall clock, microseconds
    snClient,     \* the ServiceNowClient instance of the current invocation
    snCtx,        \* ServiceNow integration context (persisted dict)
    http,         \* progress of the current ServiceNowClient.http_request call
    wxCtx,        \* Webex integration context (persisted dict: user -> record)
    wxMain,       \* position of the current Webex main() invocation
    call,         \* record of the most recent get_access_token call
    minted,       \* per client: token its last call minted by a refresh, if
                  \* nothing has written the client's record since
    pg,           \* progress of the current get_events_with_pagination call
    trueExpiry,   \* per client: the instant (issue time + expires_in) at which
                  \* the stored access token expires, -1 when none is stored
    source,       \* the listing endpoints the Webex fetch runs against
    lastRun,      \* the persisted last run (demisto.getLastRun / setLastRun)
    fx,           \* progress of the current fetch-events invocation of main()
    sink,         \* the events the current invocation sent (send_events_to_xsiam)
    delivered,    \* how often each event of the ascending source was sent
    history,      \* the events the ascending source has served so far, and
                  \* whether an invocation was stopped after its send
    saving        \* per Webex user: progress of an invocation that saves the
                  \* user's tokens while another invocation runs

tokenVars ==
    <<integration, now, snClient, snCtx, http, wxCtx, wxMain, call, minted, trueExpiry>>
fetchVars == <<source, lastRun, fx, sink, delivered, history>>
vars ==
    <<integration, now, snClient, snCtx, http, wxCtx, wxMain, call, minted, pg, trueExpiry,
      source, lastRun, fx, sink, delivered, history, saving>>

----------------------------------------------------------------------------
(* Bounds *)

MaxSec == 1        \* the clock runs over 0..MaxSec seconds
MaxRequests == 3   \* http_request activations followed per logical call
MaxItems == 2      \* items on one page of events
MaxLimit == 2      \* the limit argument of get_events_with_pagination
MaxPages == 3      \* page requests followed per get_events_with_pagination call
MaxFetch == 1      \* the max_fetch parameter of a fetch-events invocation
MaxFetchAscending == 2  \* the same, against the ascending source
MaxMs == 3         \* milliseconds the clock of the fetch cycles runs for

----------------------------------------------------------------------------
(* Python dicts are functions with a finite domain of string keys *)

Empty == [k \in {} |-> 0]
Has(d, k) == k \in DOMAIN d
Get(d, k, default) == IF k \in DOMAIN d THEN d[k] ELSE default
Put(d, k, v) == [x \in DOMAIN d \cup {k} |-> IF x = k THEN v ELSE d[x]]
OptField(k, S) == {Empty} \cup {k :> v : v \in S}

None == "None"

----------------------------------------------------------------------------
(* Clock *)

SubSecond == {0, 500}
ClockValues == {s * 1000000 + u : s \in 0..MaxSec, u \in SubSecond}
Later(t) == {u \in ClockValues : u >= t}

\* date_to_timestamp(datetime): epoch milliseconds of the datetime's timetuple
\* (whole seconds)
date_to_timestamp(t) == (t \div 1000000) * 1000

\* date_time_to_iso_format: ISO string with millisecond precision, represented
\* by its millisecond count; parser.parse reads it back as a datetime
date_time_to_iso_format(t) == t \div 1000
parse(s) == s * 1000

----------------------------------------------------------------------------
(* Answers of a token endpoint *)

Tokens == {"a1", "a2"}
RefreshTokens == {"r1"}
ExpiresIn == {1}            \* expires_in answers, seconds (besides none)

Resp(status, json, body) == [status |-> status, json |-> json, body |-> body]
NoAnswer == Resp(0, FALSE, Empty)
ErrorBody == "error" :> "invalid_grant"

SNTokenBodies ==
    {a @@ r @@ e : a \in {"access_token" :> v : v \in Tokens},
                   r \in OptField("refresh_token", RefreshTokens),
                   e \in OptField("expires_in", ExpiresIn)}
    \cup {Empty}

SNAnswers ==
    {Resp(200, TRUE, b) : b \in SNTokenBodies}
    \cup {Resp(401, TRUE, ErrorBody), Resp(200, FALSE, Empty), Resp(500, TRUE, Empty)}

\* outcome of a method: new context, returned value, raised error, number of
\* token-endpoint exchanges made, clock when it finished
Outcome(ctx, ret, err, nx, t) ==
    [ctx |-> ctx, ret |-> ret, err |-> err, nx |-> nx, t |-> t]

----------------------------------------------------------------------------
(* ServiceNowClient *)

SNConfigs ==
    [use_oauth : BOOLEAN, authentication_url : BOOLEAN, at_client_id : BOOLEAN,
     logged_in : {FALSE}]

\* __init__: a client id of the form id@refresh_token seeds the context
SNInitContext(self, ctx) ==
    IF self.at_client_id THEN "refresh_token" :> "r1" ELSE ctx

\* mutant: the IdP exchange stores the access token without its expiry time
SNStoredToken_IdpNoExpiry(res, t2, keep_refresh) ==
    LET expiry_time == date_to_timestamp(t2) + Get(res, "expires_in", 0) * 1000 - 10
    IN  IF keep_refresh
        THEN [access_token |-> res["access_token"],
              refresh_token |-> Get(res, "refresh_token", None),
              expiry_time |-> expiry_time]
        ELSE [access_token |-> res["access_token"]]

\* the token-exchange tail shared by get_access_token and
\* _get_access_token_idp: POST, parse, check `error`, store, return
SNStoredToken(res, t2, keep_refresh) ==
    LET expiry_time == date_to_timestamp(t2) + Get(res, "expires_in", 0) * 1000 - 10
    IN  IF keep_refresh
        THEN [access_token |-> res["access_token"],
              refresh_token |-> Get(res, "refresh_token", None),
              expiry_time |-> expiry_time]
        ELSE [access_token |-> res["access_token"], expiry_time |-> expiry_time]

SNTokenExchange(ctx, ans, t2, keep_refresh) ==
    IF ans.status \notin {200, 201, 401} THEN Outcome(ctx, None, "return_error", 1, t2)
    ELSE IF ~ans.json THEN Outcome(ctx, None, "return_error", 1, t2)
    ELSE IF Has(ans.body, "error") THEN Outcome(ctx, None, "return_error", 1, t2)
    ELSE IF Has(ans.body, "access_token")
         THEN Outcome(SNStoredToken(ans.body, t2, keep_refresh),
                      ans.body["access_token"], "none", 1, t2)
    ELSE Outcome(ctx, None, "none", 1, t2)

\* mutant: the exchange is made whether or not login has been called
SNGetAccessTokenIdp_NoLoginCheck(self, ctx, t, ans, t2) ==
    SNTokenExchange(ctx, ans, t2, FALSE)

SNGetAccessTokenIdp(self, ctx, t, ans, t2) ==
    IF ~self.logged_in THEN Outcome(ctx, None, "not_logged_in", 0, t)
    ELSE SNTokenExchange(ctx, ans, t2, FALSE)

\* mutant: the expiry (milliseconds) is compared with the clock in its own unit
SNCachedTokenValid_WrongUnit(ctx, t) ==
    Has(ctx, "access_token") /\ ctx["expiry_time"] > t

SNCachedTokenValid(ctx, t) ==
    Has(ctx, "access_token") /\ ctx["expiry_time"] > date_to_timestamp(t)

\* mutant: the refresh grant is attempted without looking for a refresh token
SNGetAccessToken_NoRefreshCheck(self, ctx, t, ans, t2) ==
    IF Has(ctx, "access_token") /\ ~Has(ctx, "expiry_time")
    THEN Outcome(ctx, None, "KeyError", 0, t)
    ELSE IF SNCachedTokenValid(ctx, t)
    THEN Outcome(ctx, ctx["access_token"], "none", 0, t)
    ELSE IF self.authentication_url THEN SNGetAccessTokenIdp(self, ctx, t, ans, t2)
    ELSE SNTokenExchange(ctx, ans, t2, TRUE)

SNGetAccessToken(self, ctx, t, ans, t2) ==
    IF Has(ctx, "access_token") /\ ~Has(ctx, "expiry_time")
    THEN Outcome(ctx, None, "KeyError", 0, t)
    ELSE IF SNCachedTokenValid(ctx, t)
    THEN Outcome(ctx, ctx["access_token"], "none", 0, t)
    ELSE IF self.authentication_url THEN SNGetAccessTokenIdp(self, ctx, t, ans, t2)
    ELSE IF ~Has(ctx, "refresh_token") THEN Outcome(ctx, None, "not_logged_in", 0, t)
    ELSE SNTokenExchange(ctx, ans, t2, TRUE)

\* does a get_access_token call in this state reach the token endpoint?
SNWillExchange(self, ctx, t) == SNGetAccessToken(self, ctx, t, NoAnswer, t).nx = 1

\* line 76-78: a 401 is followed by a token refresh and a recursive call only
\* in OAuth mode and only when the stored expiry_time is not in the future
\* mutant: every 401 in OAuth mode is followed by get_access_token and a retry
SNShouldRefreshOn401_Always(self, ctx, t) == self.use_oauth

\* mutant: the mode is not looked at
SNShouldRefreshOn401_AnyMode(self, ctx, t) ==
    Get(ctx, "expiry_time", 0) <= date_to_timestamp(t)

SNShouldRefreshOn401(self, ctx, t) ==
    self.use_oauth /\ Get(ctx, "expiry_time", 0) <= date_to_timestamp(t)

\* answers of the ServiceNow API to the request itself
ApiResponses ==
    {Resp(200, TRUE, Empty), Resp(401, TRUE, Empty), Resp(500, TRUE, Empty)}

NoAct == [status |-> 0, json |-> FALSE, expiry |-> 0, t401 |-> 0, exch_after |-> 0]

\* the arguments of an http_request call: a query with the defaults, and a
\* call that passes every argument
NoArgs ==
    [method |-> None, url_suffix |-> None, full_url |-> None, params |-> None,
     headers |-> None, json_data |-> None, data |-> None, files |-> None,
     return_empty_response |-> FALSE, auth |-> None, timeout |-> None]
RequestArgs ==
    {[NoArgs EXCEPT !.method = "GET", !.url_suffix = "/table", !.params = "p"],
     [method |-> "POST", url_suffix |-> "/table", full_url |-> "url", params |-> "p",
      headers |-> "h", json_data |-> "j", data |-> "d", files |-> "f",
      return_empty_response |-> TRUE, auth |-> "a", timeout |-> "t"]}

\* line 83: the recursive call passes method, url_suffix, full_url and params
\* and leaves the other arguments at their defaults
RetryArgs(args) ==
    [NoArgs EXCEPT !.method = args.method, !.url_suffix = args.url_suffix,
                   !.full_url = args.full_url, !.params = args.params]

\* orig: the arguments of the command's call; args: those of the activation
\* in progress
HttpIdle ==
    [pc |-> "idle", requests |-> 0, exchanges |-> 0, n401 |-> 0,
     result |-> "none", pre |-> Empty, act |-> NoAct, orig |-> NoArgs, args |-> NoArgs]

HttpEnd(h, result) ==
    [h EXCEPT !.pc = "done", !.result = result, !.orig = NoArgs, !.args = NoArgs]
HttpState(ctx, t, h) == [ctx |-> ctx, now |-> t, http |-> h]

\* One activation of http_request, first half (lines 59-68): entered at clock
\* t, it takes a token in OAuth mode (ans1: the token endpoint's answer, if
\* the call reaches it) and sends the request, which the API answers by resp.
SNHttpSend(self, ctx, h, t, ans1, resp) ==
    LET tok == IF self.use_oauth THEN SNGetAccessToken(self, ctx, t, ans1, t)
               ELSE Outcome(ctx, None, "none", 0, t)
        h1 == [h EXCEPT !.exchanges = @ + tok.nx, !.act = NoAct]
    IN  IF tok.err # "none" \/ (self.use_oauth /\ tok.ret = None)
        THEN HttpState(tok.ctx, t, HttpEnd(h1, "error"))
        ELSE HttpState(tok.ctx, t,
                       [h1 EXCEPT !.pc = "response", !.requests = @ + 1,
                                  !.act.status = resp.status, !.act.json = resp.json])

\* Second half (lines 69-97): the response arrives at clock t2; ans2 is the
\* token endpoint's answer to the get_access_token call of line 79.  The
\* activation returns, raises, or calls http_request again (pc = "retry").
SNHttpReceive(self, ctx, h, t2, ans2) ==
    IF h.act.status \in {200, 201}
    THEN HttpState(ctx, t2, HttpEnd(h, IF h.act.json THEN "ok" ELSE "error"))
    ELSE IF h.act.status = 401
    THEN
        LET h3 == [h EXCEPT !.n401 = @ + 1,
                            !.act.expiry = Get(ctx, "expiry_time", 0),
                            !.act.t401 = t2] IN
        IF SNShouldRefreshOn401(self, ctx, t2)
        THEN LET tok2 == SNGetAccessToken(self, ctx, t2, ans2, t2)
                 h4 == [h3 EXCEPT !.exchanges = @ + tok2.nx,
                                  !.act.exch_after = tok2.nx]
             IN  IF tok2.err # "none" \/ tok2.ret = None
                 THEN HttpState(tok2.ctx, t2, HttpEnd(h4, "error"))
                 ELSE HttpState(tok2.ctx, t2, [h4 EXCEPT !.pc = "retry"])
        ELSE HttpState(ctx, t2, HttpEnd(h3, "error"))
    ELSE HttpState(ctx, t2, HttpEnd(h, "error"))

----------------------------------------------------------------------------
(* Record of the most recent get_access_token call *)

Clients == {"ServiceNow", "admin", "compliance_officer"}

NoCall ==
    [who |-> "nobody", self |-> Empty, t |-> 0, pre |-> Empty, ans |-> NoAnswer,
     ret |-> None, err |-> "none", nx |-> 0, post |-> Empty, after |-> "none"]

CallRecord(who, self, t, pre, ans, o, after) ==
    [who |-> who, self |-> self, t |-> t, pre |-> pre,
     ans |-> IF o.nx = 0 THEN NoAnswer ELSE ans,
     ret |-> o.ret, err |-> o.err, nx |-> o.nx, post |-> o.ctx, after |-> after]

\* the stored ServiceNow token is expired and a refresh token is stored
\* (refresh-grant case of get_access_token)
SNRefreshCase(self, ctx, t) ==
    /\ ~self.authentication_url
    /\ Has(ctx, "access_token") /\ Has(ctx, "expiry_time")
    /\ ~SNCachedTokenValid(ctx, t)
    /\ Has(ctx, "refresh_token") /\ ctx["refresh_token"] # None

Minted(o, refresh_case) ==
    IF refresh_case /\ o.nx = 1 /\ o.err = "none" /\ o.ret # None THEN o.ret ELSE "none"

\* the instant at which a token issued at clock t by the answer body expires
ExpiryInstant(body, t) ==
    IF Has(body, "access_token") THEN t + Get(body, "expires_in", 0) * 1000000 ELSE -1

\* trueExpiry after a ServiceNow get_access_token call with outcome o: the
\* call stores a token exactly when it returns one it got from an exchange
SNTrueExpiry(o, ans) ==
    IF o.nx = 1 /\ o.err = "none" /\ o.ret # None
    THEN [trueExpiry EXCEPT !["ServiceNow"] = ExpiryInstant(ans.body, o.t)]
    ELSE trueExpiry

----------------------------------------------------------------------------
(* Time passes between two invocations (Tick) and while a request is in     *)
(* flight; call and http describe the operation that has just run.          *)

Tick ==
    /\ http.pc \in {"idle", "done"}
    /\ wxMain = "admin"
    /\ \E t \in Later(now) \ {now} : now' = t
    /\ http' = HttpIdle
    /\ call' = NoCall
    /\ UNCHANGED <<fetchVars, saving, pg, integration, snClient, snCtx, wxCtx, wxMain, minted, trueExpiry>>

(* Actions of the ServiceNow integration *)

\* a new invocation constructs a new client from the instance parameters
SNConstruct ==
    /\ integration = "ServiceNow"
    /\ http.pc \in {"idle", "done"}
    /\ \E cfg \in SNConfigs :
        /\ snClient' = cfg
        /\ snCtx' = SNInitContext(cfg, snCtx)
        /\ minted' = IF cfg.at_client_id
                     THEN [minted EXCEPT !["ServiceNow"] = "none"] ELSE minted
        /\ trueExpiry' = IF cfg.at_client_id
                         THEN [trueExpiry EXCEPT !["ServiceNow"] = -1] ELSE trueExpiry
    /\ http' = HttpIdle
    /\ call' = NoCall
    /\ UNCHANGED <<fetchVars, saving, pg, integration, now, wxCtx, wxMain>>

\* login, password grant (lines 110-141)
SNLoginPassword(ctx, ans) ==
    IF ans.status \notin {200, 201} \/ ~ans.json \/ Has(ans.body, "error")
    THEN ctx
    ELSE IF Has(ans.body, "refresh_token")
    THEN "refresh_token" :> ans.body["refresh_token"]
    ELSE ctx

\* the get_access_token call of a command or of login (IdP mode), at clock t
SNCallGetAccessToken(self, t) ==
    \E ans \in IF SNWillExchange(self, snCtx, t) THEN SNAnswers ELSE {NoAnswer} :
        LET o == SNGetAccessToken(self, snCtx, t, ans, t) IN
        /\ snClient' = self
        /\ snCtx' = o.ctx
        /\ now' = o.t
        /\ call' = CallRecord("ServiceNow", self, t, snCtx, ans, o, minted["ServiceNow"])
        /\ minted' = [minted EXCEPT !["ServiceNow"] =
                          Minted(o, SNRefreshCase(self, snCtx, t))]
        /\ trueExpiry' = SNTrueExpiry(o, ans)

SNLogin ==
    /\ integration = "ServiceNow"
    /\ http.pc \in {"idle", "done"}
    /\ snClient.use_oauth
    /\ IF snClient.authentication_url
       THEN SNCallGetAccessToken([snClient EXCEPT !.logged_in = TRUE], now)
       ELSE \E ans \in SNAnswers :
               /\ snCtx' = SNLoginPassword(snCtx, ans)
               /\ minted' = [minted EXCEPT !["ServiceNow"] = "none"]
               /\ trueExpiry' =
                    IF snCtx' # snCtx
                    THEN [trueExpiry EXCEPT !["ServiceNow"] = -1] ELSE trueExpiry
               /\ call' = NoCall
               /\ UNCHANGED <<snClient, now>>
    /\ http' = HttpIdle
    /\ UNCHANGED <<fetchVars, saving, pg, integration, wxCtx, wxMain>>

\* a command calls get_access_token
SNGetAccessTokenCall ==
    /\ integration = "ServiceNow"
    /\ http.pc \in {"idle", "done"}
    /\ snClient.use_oauth
    /\ SNCallGetAccessToken(snClient, now)
    /\ http' = HttpIdle
    /\ UNCHANGED <<fetchVars, saving, pg, integration, wxCtx, wxMain>>

\* entry of an activation of http_request at clock t
SNHttpEnter(h, t) ==
    \E ans1 \in IF snClient.use_oauth /\ SNWillExchange(snClient, snCtx, t)
                THEN SNAnswers ELSE {NoAnswer},
       resp \in ApiResponses :
        LET s == SNHttpSend(snClient, snCtx, h, t, ans1, resp) IN
        /\ snCtx' = s.ctx
        /\ now' = s.now
        /\ http' = s.http
        /\ minted' = [minted EXCEPT !["ServiceNow"] = "none"]
        /\ trueExpiry' =
             IF snClient.use_oauth
             THEN SNTrueExpiry(SNGetAccessToken(snClient, snCtx, t, ans1, t), ans1)
             ELSE trueExpiry
        /\ call' = NoCall
        /\ UNCHANGED <<fetchVars, saving, pg, integration, snClient, wxCtx, wxMain>>

\* a command calls http_request
SNHttpRequest ==
    /\ integration = "ServiceNow"
    /\ http.pc \in {"idle", "done"}
    /\ \E args \in RequestArgs :
         SNHttpEnter([HttpIdle EXCEPT !.pc = "running", !.pre = snCtx,
                                     !.orig = args, !.args = args], now)

\* the recursive call of line 83
SNHttpRetry ==
    /\ integration = "ServiceNow"
    /\ http.pc = "retry"
    /\ http.requests < MaxRequests
    /\ SNHttpEnter([http EXCEPT !.args = RetryArgs(@)], now)

\* the API's response arrives
SNHttpResponse ==
    /\ integration = "ServiceNow"
    /\ http.pc = "response"
    /\ \E t2 \in Later(now) :
        \E ans2 \in IF http.act.status = 401 /\ SNShouldRefreshOn401(snClient, snCtx, t2)
                       /\ SNWillExchange(snClient, snCtx, t2)
                    THEN SNAnswers ELSE {NoAnswer} :
            LET s == SNHttpReceive(snClient, snCtx, http, t2, ans2) IN
            /\ snCtx' = s.ctx
            /\ now' = s.now
            /\ http' = s.http
            /\ trueExpiry' =
                 IF http.act.status = 401 /\ SNShouldRefreshOn401(snClient, snCtx, t2)
                 THEN SNTrueExpiry(SNGetAccessToken(snClient, snCtx, t2, ans2, t2), ans2)
                 ELSE trueExpiry
            /\ UNCHANGED <<fetchVars, saving, pg, integration, snClient, wxCtx, wxMain, call, minted>>

NextSN ==
    SNConstruct \/ SNLogin \/ SNGetAccessTokenCall
    \/ SNHttpRequest \/ SNHttpRetry \/ SNHttpResponse

----------------------------------------------------------------------------
(* Webex Client *)

Users == {"admin", "compliance_officer"}

WxTokenBodies ==
    {a @@ r @@ e @@ x : a \in {"access_token" :> v : v \in Tokens},
                        r \in OptField("refresh_token", RefreshTokens),
                        e \in OptField("expires_in", ExpiresIn),
                        x \in OptField("refresh_token_expires_in", {1})}

WxAnswers ==
    {Resp(200, TRUE, b) : b \in WxTokenBodies}
    \cup {Resp(s, TRUE, ErrorBody) : s \in {200, 400}}
    \cup {Resp(200, FALSE, Empty)}

\* create_access_token: BaseClient._http_request with the default ok codes and
\* resp_type raises on a status that is not ok and on a body that is not JSON
WxExchangeRaises(ans) == ans.status >= 400 \/ ~ans.json

\* the record saved for a user; assign_params keeps only the arguments that
\* have a value
WxContextOf(result, t) ==
    LET at == IF Has(result, "access_token")
              THEN "access_token" :> result["access_token"] ELSE Empty
        rt == IF Has(result, "refresh_token")
              THEN "refresh_token" :> result["refresh_token"] ELSE Empty
    IN  at @@ rt
        @@ ("access_token_expires_in" :>
                date_time_to_iso_format(t + Get(result, "expires_in", 0) * 1000000))
        @@ ("refresh_token_expires_in" :>
                date_time_to_iso_format(
                    t + Get(result, "refresh_token_expires_in", 0) * 1000000))

save_tokens_to_integration_context(user, ctx, result, t) ==
    Put(ctx, user, WxContextOf(result, t))

\* mutant: the new token is returned without being saved
WxRefresh_NoSave(user, ctx, ans, t2) ==
    IF WxExchangeRaises(ans)
    THEN Outcome(ctx, None, "http_error", 1, t2)
    ELSE Outcome(ctx, Get(ans.body, "access_token", None), "none", 1, t2)

\* mutant: the refresh sets the context to the user's new record alone
WxRefresh_Alone(user, ctx, ans, t2) ==
    IF WxExchangeRaises(ans)
    THEN Outcome(ctx, None, "http_error", 1, t2)
    ELSE Outcome(user :> WxContextOf(ans.body, t2),
                 Get(ans.body, "access_token", None), "none", 1, t2)

\* the refresh branch of get_access_token (lines 145-147)
WxRefresh(user, ctx, ans, t2) ==
    IF WxExchangeRaises(ans)
    THEN Outcome(ctx, None, "http_error", 1, t2)
    ELSE Outcome(save_tokens_to_integration_context(user, ctx, ans.body, t2),
                 Get(ans.body, "access_token", None), "none", 1, t2)

\* mutant: a missing record is an error
WxGetAccessToken_RaisesWhenAbsent(user, ctx, t, ans, t2) ==
    IF Has(ctx, user)
    THEN LET uc == ctx[user] IN
         IF t > parse(uc["refresh_token_expires_in"])
         THEN Outcome(ctx, None, "refresh_token_expired", 0, t)
         ELSE IF t > parse(uc["access_token_expires_in"])
         THEN WxRefresh(user, ctx, ans, t2)
         ELSE Outcome(ctx, Get(uc, "access_token", None), "none", 0, t)
    ELSE Outcome(ctx, None, "authentication_required", 0, t)

\* mutant: the access token's expiry is looked at first
WxGetAccessToken_AccessFirst(user, ctx, t, ans, t2) ==
    IF Has(ctx, user)
    THEN LET uc == ctx[user] IN
         IF ~(t > parse(uc["access_token_expires_in"]))
         THEN Outcome(ctx, Get(uc, "access_token", None), "none", 0, t)
         ELSE IF t > parse(uc["refresh_token_expires_in"])
         THEN Outcome(ctx, None, "refresh_token_expired", 0, t)
         ELSE WxRefresh(user, ctx, ans, t2)
    ELSE Outcome(ctx, None, "none", 0, t)

WxGetAccessToken(user, ctx, t, ans, t2) ==
    IF Has(ctx, user)
    THEN LET uc == ctx[user] IN
         IF t > parse(uc["refresh_token_expires_in"])
         THEN Outcome(ctx, None, "refresh_token_expired", 0, t)
         ELSE IF t > parse(uc["access_token_expires_in"])
         THEN WxRefresh(user, ctx, ans, t2)
         ELSE Outcome(ctx, Get(uc, "access_token", None), "none", 0, t)
    ELSE Outcome(ctx, None, "none", 0, t)

\* does a get_access_token call in this state reach the token endpoint?
WxWillExchange(user, ctx, t) == WxGetAccessToken(user, ctx, t, NoAnswer, t).nx = 1

\* the stored Webex token is expired, its refresh token present and unexpired
WxRefreshCase(user, ctx, t) ==
    WxWillExchange(user, ctx, t) /\ Has(ctx[user], "refresh_token")

\* oauth_complete: authorization-code exchange, then save
WxOauthCompleteContext(user, ctx, ans, t2) ==
    IF WxExchangeRaises(ans) THEN ctx
    ELSE save_tokens_to_integration_context(user, ctx, ans.body, t2)

----------------------------------------------------------------------------
(* Actions of the Webex integration: every invocation of main() constructs  *)
(* the AdminClient, then the ComplianceOfficerClient, then runs the command; *)
(* wxMain is the step main() takes next                                      *)

\* AdminClient.__init__ / ComplianceOfficerClient.__init__: the Authorization
\* header is built from get_access_token(); an exception ends main() in
\* return_error, and the next invocation starts over
WxClientInit(user, nextpc, t) ==
    \E ans \in IF WxWillExchange(user, wxCtx, t) THEN WxAnswers ELSE {NoAnswer} :
        LET o == WxGetAccessToken(user, wxCtx, t, ans, t) IN
        /\ wxCtx' = o.ctx
        /\ now' = o.t
        /\ call' = CallRecord(user, Empty, t, wxCtx, ans, o, minted[user])
        /\ minted' = [minted EXCEPT ![user] = Minted(o, WxRefreshCase(user, wxCtx, t))]
        /\ trueExpiry' = IF o.nx = 1 /\ o.err = "none"
                         THEN [trueExpiry EXCEPT ![user] = ExpiryInstant(ans.body, o.t)]
                         ELSE trueExpiry
        /\ wxMain' = IF o.err = "none" THEN nextpc ELSE "admin"
        /\ UNCHANGED <<fetchVars, saving, pg, integration, snClient, snCtx, http>>

WxAdminClientInit ==
    /\ integration = "CiscoWebex"
    /\ wxMain = "admin"
    /\ WxClientInit("admin", "compliance_officer", now)

WxComplianceOfficerClientInit ==
    /\ integration = "CiscoWebex"
    /\ wxMain = "compliance_officer"
    /\ WxClientInit("compliance_officer", "command", now)

\* cisco-webex-oauth-start: returns the authorization URL
WxOauthStart ==
    /\ integration = "CiscoWebex"
    /\ wxMain = "command"
    /\ wxMain' = "admin"
    /\ UNCHANGED <<fetchVars, saving, pg, integration, now, snClient, snCtx, http, wxCtx, call, minted,
                   trueExpiry>>

\* cisco-webex-oauth-complete for args.user
WxOauthComplete ==
    /\ integration = "CiscoWebex"
    /\ wxMain = "command"
    /\ \E user \in Users, ans \in WxAnswers :
        /\ wxCtx' = WxOauthCompleteContext(user, wxCtx, ans, now)
        /\ minted' = [minted EXCEPT ![user] = "none"]
        /\ trueExpiry' = IF WxExchangeRaises(ans) THEN trueExpiry
                         ELSE [trueExpiry EXCEPT ![user] = ExpiryInstant(ans.body, now)]
    /\ call' = NoCall
    /\ wxMain' = "admin"
    /\ UNCHANGED <<fetchVars, saving, pg, integration, now, snClient, snCtx, http>>

NextWX ==
    WxAdminClientInit \/ WxComplianceOfficerClientInit \/ WxOauthStart \/ WxOauthComplete

----------------------------------------------------------------------------
(* get_events_with_pagination *)

\* events as the API returns them, and the pages of a listing endpoint: a
\* list of items and the URL of the `next` link ("" when there is none)
Events == {[created |-> c] : c \in {1, 2}}
ItemLists == UNION {[1..n -> Events] : n \in 0..MaxItems}
NextUrls == {"", "u1", "u2"}
Pages == [items : ItemLists, next : NextUrls]

\* mutant: only the first event of the list is given the two fields
add_fields_to_events_FirstOnly(events, event_type) ==
    [i \in 1..Len(events) |->
        [created |-> events[i].created,
         _time |-> IF i = 1 THEN events[i].created ELSE 0,
         source_log_type |-> IF i = 1 THEN event_type ELSE "none"]]

\* add_fields_to_events
add_fields_to_events(events, event_type) ==
    [i \in 1..Len(events) |->
        [created |-> events[i].created, _time |-> events[i].created,
         source_log_type |-> event_type]]

\* mutant: the items of a page replace the events gathered so far
ExtendEvents_Overwrite(events, items) == items

\* events.extend(response_json.get('items', []))
ExtendEvents(events, items) == events \o items

\* the loop condition of line 356, next_url being the link of the last response
PaginationContinues(next_url, events, limit) ==
    next_url # "" /\ Len(events) < limit

PgIdle ==
    [pc |-> "idle", event_type |-> "none", limit |-> 0, arg_url |-> "",
     next_url |-> "", events |-> <<>>, log |-> <<>>,
     ret_events |-> <<>>, ret_url |-> ""]

EventTypes == {"Admin Audit Events", "Security Audit Events", "Events"}

\* lines 350-354: the first request, made with the caller's next_url; page is
\* the API's answer, raises tells that the request raised instead
GetEventsFirstPage(event_type, limit, next_url, page, raises) ==
    IF raises
    THEN [PgIdle EXCEPT !.pc = "raised", !.event_type = event_type, !.limit = limit,
                        !.arg_url = next_url,
                        !.log = <<[url |-> next_url, raised |-> TRUE,
                                   page |-> [items |-> <<>>, next |-> ""]]>>]
    ELSE [PgIdle EXCEPT !.pc = "loop", !.event_type = event_type, !.limit = limit,
                        !.arg_url = next_url,
                        !.next_url = page.next,
                        !.events = ExtendEvents(<<>>, page.items),
                        !.log = <<[url |-> next_url, raised |-> FALSE, page |-> page]>>]

\* lines 357-359: one more request, made with next_url
GetEventsNextPage(p, page, raises) ==
    IF raises
    THEN [p EXCEPT !.pc = "raised",
                   !.log = Append(@, [url |-> p.next_url, raised |-> TRUE,
                                      page |-> [items |-> <<>>, next |-> ""]])]
    ELSE [p EXCEPT !.next_url = page.next,
                   !.events = ExtendEvents(@, page.items),
                   !.log = Append(@, [url |-> p.next_url, raised |-> FALSE,
                                      page |-> page])]

\* lines 361-363
GetEventsReturn(p) ==
    [p EXCEPT !.pc = "done",
              !.ret_events = add_fields_to_events(p.events, p.event_type),
              !.ret_url = p.next_url]

\* a command calls get_events_with_pagination; a call keeps nothing of the
\* calls before it, so one call is followed from its start to its end
GetEventsCall ==
    /\ pg.pc = "idle"
    /\ \E event_type \in EventTypes, limit \in 1..MaxLimit, next_url \in {"", "u1"},
          page \in Pages, raises \in BOOLEAN :
        /\ raises => page = [items |-> <<>>, next |-> ""]
        /\ pg' = GetEventsFirstPage(event_type, limit, next_url, page, raises)
    /\ UNCHANGED <<tokenVars, fetchVars, saving>>

GetEventsLoop ==
    /\ pg.pc = "loop"
    /\ PaginationContinues(pg.next_url, pg.events, pg.limit)
    /\ Len(pg.log) < MaxPages
    /\ \E page \in Pages, raises \in BOOLEAN :
        /\ raises => page = [items |-> <<>>, next |-> ""]
        /\ pg' = GetEventsNextPage(pg, page, raises)
    /\ UNCHANGED <<tokenVars, fetchVars, saving>>

GetEventsExit ==
    /\ pg.pc = "loop"
    /\ ~PaginationContinues(pg.next_url, pg.events, pg.limit)
    /\ pg' = GetEventsReturn(pg)
    /\ UNCHANGED <<tokenVars, fetchVars, saving>>

NextPagination == GetEventsCall \/ GetEventsLoop \/ GetEventsExit

----------------------------------------------------------------------------
(* fetch-events: main() lines 513-517 and fetch_events.  The clients are     *)
(* taken as constructed; a cycle is followed from getLastRun to setLastRun.  *)

\* create_last_run looks one week back: one millisecond of the model's clock
Week == 1000

\* the event types in the order of event_type_to_client_function
EventKinds == <<"admin_audits", "security_audits", "compliance_officer_events">>
KindSet == {EventKinds[i] : i \in 1..3}

\* COMMAND_FUNCTION_TO_EVENT_TYPE of the client function of each event type
KindEventType(k) ==
    CASE k = "admin_audits" -> "Admin Audit Events"
      [] k = "security_audits" -> "Security Audit Events"
      [] k = "compliance_officer_events" -> "Events"

create_last_run(t) ==
    [k \in KindSet |->
        [since_datetime |-> date_time_to_iso_format(t - Week), next_url |-> ""]]

\* mutant: the creation time of the last event is kept as it is
increase_datetime_for_next_fetch_SameTime(events) ==
    date_time_to_iso_format(parse(events[Len(events)].created))

increase_datetime_for_next_fetch(events) ==
    date_time_to_iso_format(parse(events[Len(events)].created) + 1000)

\* mutant: the stored cursor is not looked at
ClientRequest_AlwaysQuery(from_date, limit, next_url, t) ==
    [from |-> from_date, to |-> date_time_to_iso_format(t), max |-> limit]

\* get_admin_audits / get_security_audits / get_compliance_officer_events:
\* the request is made to next_url when there is one, else it is a query from
\* from_date to the current time
ClientRequest(from_date, limit, next_url, t) ==
    IF next_url # ""
    THEN [full_url |-> next_url]
    ELSE [from |-> from_date, to |-> date_time_to_iso_format(t), max |-> limit]

\* pages an endpoint that may answer anything serves
FetchPages ==
    [items : {<<>>} \cup {<<e>> : e \in Events}, next : {"", "u1"}]

\* an endpoint that lists the events of SourceTimes in ascending creation
\* time, one per page; its cursors name the creation time to go on from
SourceTimes == {1, 2}
CursorUrl(c) == IF c = 1 THEN "u1" ELSE "u2"
CursorFrom(u) == IF u = "u1" THEN 1 ELSE 2
Earliest(S) == CHOOSE c \in S : \A d \in S : c <= d

AscendingPage(req, t) ==
    LET from == IF "full_url" \in DOMAIN req THEN CursorFrom(req.full_url) ELSE req.from
        visible == {c \in SourceTimes : from <= c /\ c <= date_time_to_iso_format(t)}
    IN  IF visible = {} THEN [items |-> <<>>, next |-> ""]
        ELSE LET rest == visible \ {Earliest(visible)} IN
             [items |-> <<[created |-> Earliest(visible)]>>,
              next |-> IF rest = {} THEN "" ELSE CursorUrl(Earliest(rest))]

ServedPages(req, t) ==
    IF source = "any" THEN FetchPages ELSE {AscendingPage(req, t)}

\* the max_fetch values followed against each kind of endpoint
FetchLimits ==
    IF source = "any" THEN 1..MaxFetch ELSE 1..MaxFetchAscending

NoHistory == [fetched |-> {}, crashed |-> FALSE]

\* the events of a page the ascending source served for the event type k, in
\* an invocation that began with (fresh = FALSE) or without a stored last run
ServedAfter(h, k, fresh, page) ==
    IF source = "any" THEN h
    ELSE [h EXCEPT !.fetched = @ \cup {[kind |-> k, created |-> page.items[i].created,
                                         fresh |-> fresh] : i \in 1..Len(page.items)}]

NoFetch ==
    [pc |-> "idle", i |-> 0, max_fetch |-> 0, last_run |-> Empty, all_events |-> <<>>,
     outcome |-> "none", fresh |-> FALSE, base |-> Empty, req1 |-> Empty, res |-> Empty]

\* lines 402-405 after getLastRun of line 514
FetchStart(persisted, max_fetch, t) ==
    LET last_run == IF persisted = Empty THEN create_last_run(t) ELSE persisted IN
    [NoFetch EXCEPT !.pc = "kinds", !.i = 1, !.max_fetch = max_fetch,
                    !.last_run = last_run, !.outcome = "running",
                    !.fresh = (persisted = Empty), !.base = last_run]

\* an exception leaves fetch_events and main through return_error
FetchAbort(f) ==
    [f EXCEPT !.pc = "idle", !.outcome = "failed", !.last_run = Empty,
              !.all_events = <<>>, !.req1 = Empty, !.res = Empty]

\* mutant: an empty cursor does not overwrite the stored one
FetchKindResult_KeepCursor(f, k, r) ==
    LET events == r.ret_events IN
    [f EXCEPT !.last_run[k].next_url = IF r.ret_url # "" THEN r.ret_url ELSE @,
              !.last_run[k].since_datetime =
                  IF events # <<>> THEN increase_datetime_for_next_fetch(events) ELSE @,
              !.all_events = IF events # <<>> THEN @ \o events ELSE @,
              !.i = @ + 1,
              !.pc = IF f.i = 3 THEN "collected" ELSE "kinds",
              !.res = Put(@, k, [request |-> f.req1, n |-> Len(events),
                                 events |-> events,
                                 last_created |->
                                    IF events # <<>> THEN events[Len(events)].created
                                    ELSE 0,
                                 ret_url |-> r.ret_url,
                                 last_next |-> r.log[Len(r.log)].page.next])]

\* mutant: the events of the event type are put in front of the list
FetchKindResult_Prepend(f, k, r) ==
    LET events == r.ret_events IN
    [f EXCEPT !.last_run[k].next_url = r.ret_url,
              !.last_run[k].since_datetime =
                  IF events # <<>> THEN increase_datetime_for_next_fetch(events) ELSE @,
              !.all_events = IF events # <<>> THEN events \o @ ELSE @,
              !.i = @ + 1,
              !.pc = IF f.i = 3 THEN "collected" ELSE "kinds",
              !.res = Put(@, k, [request |-> f.req1, n |-> Len(events),
                                 events |-> events,
                                 last_created |->
                                    IF events # <<>> THEN events[Len(events)].created
                                    ELSE 0,
                                 ret_url |-> r.ret_url,
                                 last_next |-> r.log[Len(r.log)].page.next])]

\* lines 419-422 for the event type k, after get_events_with_pagination has
\* returned the result r
FetchKindResult(f, k, r) ==
    LET events == r.ret_events IN
    [f EXCEPT !.last_run[k].next_url = r.ret_url,
              !.last_run[k].since_datetime =
                  IF events # <<>> THEN increase_datetime_for_next_fetch(events) ELSE @,
              !.all_events = IF events # <<>> THEN @ \o events ELSE @,
              !.i = @ + 1,
              !.pc = IF f.i = 3 THEN "collected" ELSE "kinds",
              !.res = Put(@, k, [request |-> f.req1, n |-> Len(events),
                                 events |-> events,
                                 last_created |->
                                    IF events # <<>> THEN events[Len(events)].created
                                    ELSE 0,
                                 ret_url |-> r.ret_url,
                                 last_next |-> r.log[Len(r.log)].page.next])]

\* mutant: setLastRun is reached whatever the send did
PersistedAfter_Always(outcome, persisted, last_run) == last_run

\* lines 516-517: setLastRun(next_run) runs only after send_events_to_xsiam
\* has returned
PersistedAfter(outcome, persisted, last_run) ==
    IF outcome = "ok" THEN last_run ELSE persisted

\* how often each event of the ascending source has been sent
DeliveredAfter(d, events) ==
    LET keys == {<<events[i].source_log_type, events[i].created>> : i \in 1..Len(events)}
        count(x) == Cardinality({i \in 1..Len(events) :
                        <<events[i].source_log_type, events[i].created>> = x})
        capped(n) == IF n > 2 THEN 2 ELSE n
    IN  [x \in DOMAIN d \cup keys |-> capped(Get(d, x, 0) + count(x))]

\* fetch-events is invoked
FetchBegin ==
    /\ integration = "CiscoWebex"
    /\ fx.pc = "idle"
    /\ \E max_fetch \in FetchLimits : fx' = FetchStart(lastRun, max_fetch, now)
    /\ pg' = PgIdle
    /\ sink' = <<>>
    /\ UNCHANGED <<tokenVars, saving, source, lastRun, delivered, history>>

\* line 418, first request of the pagination for the current event type
FetchFirstRequest ==
    /\ fx.pc = "kinds" /\ pg.pc = "idle"
    /\ LET k == EventKinds[fx.i]
           since_datetime == fx.last_run[k].since_datetime
           next_url == fx.last_run[k].next_url
           req == ClientRequest(since_datetime, fx.max_fetch, next_url, now)
       IN  \E raises \in BOOLEAN :
             IF raises
             THEN fx' = FetchAbort(fx) /\ pg' = PgIdle /\ history' = history
             ELSE \E page \in ServedPages(req, now) :
                    /\ pg' = GetEventsFirstPage(KindEventType(k), fx.max_fetch,
                                                next_url, page, FALSE)
                    /\ fx' = [fx EXCEPT !.req1 = req]
                    /\ history' = ServedAfter(history, k, fx.fresh, page)
    /\ UNCHANGED <<tokenVars, saving, source, lastRun, sink, delivered>>

\* one more request of the pagination for the current event type
FetchNextRequest ==
    /\ fx.pc = "kinds" /\ pg.pc = "loop"
    /\ PaginationContinues(pg.next_url, pg.events, pg.limit)
    /\ Len(pg.log) < MaxPages
    /\ LET k == EventKinds[fx.i]
           req == ClientRequest(fx.last_run[k].since_datetime, fx.max_fetch,
                                pg.next_url, now)
       IN  \E raises \in BOOLEAN :
             IF raises
             THEN fx' = FetchAbort(fx) /\ pg' = PgIdle /\ history' = history
             ELSE \E page \in ServedPages(req, now) :
                    /\ pg' = GetEventsNextPage(pg, page, FALSE)
                    /\ fx' = fx
                    /\ history' = ServedAfter(history, k, fx.fresh, page)
    /\ UNCHANGED <<tokenVars, saving, source, lastRun, sink, delivered>>

\* the pagination returns and lines 419-422 update last_run and all_events
FetchKindDone ==
    /\ fx.pc = "kinds" /\ pg.pc = "loop"
    /\ ~PaginationContinues(pg.next_url, pg.events, pg.limit)
    /\ fx' = FetchKindResult(fx, EventKinds[fx.i], GetEventsReturn(pg))
    /\ pg' = PgIdle
    /\ UNCHANGED <<tokenVars, saving, source, lastRun, sink, delivered, history>>

\* mutant: setLastRun is called before send_events_to_xsiam
FetchFinish_PersistFirst ==
    /\ fx.pc = "collected"
    /\ \E outcome \in {"ok", "failed"} :
        /\ fx' = IF outcome = "failed" THEN FetchAbort(fx)
                 ELSE [fx EXCEPT !.pc = "idle", !.outcome = outcome,
                                 !.last_run = Empty, !.all_events = <<>>]
        /\ sink' = IF outcome = "failed" THEN sink ELSE fx.all_events
        /\ lastRun' = fx.last_run
    /\ UNCHANGED <<tokenVars, saving, source, pg, delivered, history>>

\* lines 516-517: the events are sent, then the last run is set; the send may
\* raise, and the invocation may be stopped between the two calls (followed
\* for the ascending source)
FetchFinish ==
    /\ fx.pc = "collected"
    /\ \E outcome \in {"ok", "failed"}
                       \cup (IF source = "ascending" THEN {"crashed"} ELSE {}) :
        /\ fx' = IF outcome = "failed" THEN FetchAbort(fx)
                 ELSE [fx EXCEPT !.pc = "idle", !.outcome = outcome,
                                 !.last_run = Empty, !.all_events = <<>>]
        /\ IF outcome = "failed"
           THEN UNCHANGED <<sink, delivered>>
           ELSE /\ sink' = fx.all_events
                /\ delivered' = IF source = "ascending"
                                THEN DeliveredAfter(delivered, fx.all_events)
                                ELSE delivered
        /\ lastRun' = PersistedAfter(outcome, lastRun, fx.last_run)
        /\ history' = [history EXCEPT !.crashed = @ \/ outcome = "crashed"]
    /\ UNCHANGED <<tokenVars, saving, source, pg>>

NextFetch ==
    FetchBegin \/ FetchFirstRequest \/ FetchNextRequest \/ FetchKindDone \/ FetchFinish

\* a millisecond passes between two invocations
FetchTick ==
    /\ fx.pc = "idle"
    /\ now < MaxMs * 1000
    /\ now' = now + 1000
    /\ UNCHANGED <<integration, snClient, snCtx, http, wxCtx, wxMain, call, minted,
                   trueExpiry, pg, fetchVars, saving>>

NextSource == FetchTick \/ NextFetch

----------------------------------------------------------------------------
(* Two invocations of main() that run at the same time, one saving tokens   *)
(* for admin and one for compliance_officer: the steps of                   *)
(* save_tokens_to_integration_context of the two interleave                 *)

NoSave == [pc |-> "idle", result |-> Empty, t |-> 0, local |-> Empty]

\* token bodies the two invocations got from their exchanges
SavedBodies ==
    {b \in WxTokenBodies : Has(b, "refresh_token") /\ Has(b, "refresh_token_expires_in")}

\* lines 117-126: the user's record is built from the API response
SaveBegin ==
    /\ integration = "CiscoWebex"
    /\ \E u \in Users, result \in SavedBodies :
        /\ saving[u].pc = "idle"
        /\ saving' = [saving EXCEPT ![u] = [NoSave EXCEPT !.pc = "get", !.result = result,
                                                           !.t = now]]
    /\ UNCHANGED <<tokenVars, fetchVars, pg>>

\* line 127: integration_context = get_integration_context()
SaveGet ==
    /\ \E u \in Users :
        /\ saving[u].pc = "get"
        /\ saving' = [saving EXCEPT ![u].pc = "set", ![u].local = wxCtx]
    /\ UNCHANGED <<tokenVars, fetchVars, pg>>

\* lines 128-129: the record is put into the copy and the copy is written
SaveSet ==
    /\ \E u \in Users :
        /\ saving[u].pc = "set"
        /\ wxCtx' = save_tokens_to_integration_context(u, saving[u].local,
                                                       saving[u].result, saving[u].t)
        /\ saving' = [saving EXCEPT ![u].pc = "done"]
    /\ UNCHANGED <<integration, now, snClient, snCtx, http, wxMain, call, minted,
                   trueExpiry, fetchVars, pg>>

NextSave == SaveBegin \/ SaveGet \/ SaveSet

----------------------------------------------------------------------------
(* Specification *)

BasicAuth ==
    [use_oauth |-> FALSE, authentication_url |-> FALSE, at_client_id |-> FALSE,
     logged_in |-> FALSE]

InitProgram ==
    /\ integration \in {"ServiceNow", "CiscoWebex"}
    /\ now = 0
    /\ snClient \in IF integration = "ServiceNow" THEN SNConfigs ELSE {BasicAuth}
    /\ snCtx = SNInitContext(snClient, Empty)
    /\ http = HttpIdle
    /\ wxCtx = Empty
    /\ wxMain = "admin"
    /\ call = NoCall
    /\ minted = [c \in Clients |-> "none"]
    /\ pg = PgIdle
    /\ trueExpiry = [c \in Clients |-> -1]
    /\ lastRun = Empty
    /\ fx = NoFetch
    /\ sink = <<>>
    /\ delivered = Empty
    /\ history = NoHistory
    /\ saving = [u \in Users |-> NoSave]

Init == InitProgram /\ source = "any"

Next == Tick \/ NextSN \/ NextWX

Spec == Init /\ [][Next]_vars

\* get_events_with_pagination against an arbitrary listing endpoint
InitPagination == Init /\ integration = "CiscoWebex"

SpecPagination == InitPagination /\ [][NextPagination]_vars

\* fetch-events cycles against listing endpoints that may answer anything
SpecFetch == InitPagination /\ [][NextFetch]_vars

\* fetch-events cycles, as time passes, against endpoints that list their
\* events in strictly ascending creation time
InitSource == InitProgram /\ integration = "CiscoWebex" /\ source = "ascending"

SpecSource == InitSource /\ [][NextSource]_vars

\* two invocations saving tokens for the two Webex users at the same time
SpecSave == InitPagination /\ [][NextSave]_vars

----------------------------------------------------------------------------
(* Observations used by the properties *)

SNCall == integration = "ServiceNow" /\ call.who = "ServiceNow"
WxCall == integration = "CiscoWebex" /\ call.who \in Users
WxPre == call.pre[call.who]
HttpSettled == integration = "ServiceNow" /\ http.pc \in {"done", "retry"}

\* the token endpoint answered the call's exchange with a token
AnswerGrantsToken ==
    /\ call.nx = 1 /\ call.ans.status = 200 /\ call.ans.json
    /\ ~Has(call.ans.body, "error") /\ Has(call.ans.body, "access_token")

\* the call found an expired access token and a present, unexpired refresh
\* token in the store
RefreshCaseOfCall ==
    \/ /\ SNCall /\ ~call.self.authentication_url
       /\ Has(call.pre, "access_token") /\ Has(call.pre, "expiry_time")
       /\ call.pre["expiry_time"] <= date_to_timestamp(call.t)
       /\ Has(call.pre, "refresh_token") /\ call.pre["refresh_token"] # None
    \/ /\ WxCall /\ Has(call.pre, call.who)
       /\ Has(WxPre, "refresh_token")
       /\ call.t > parse(WxPre["access_token_expires_in"])
       /\ call.t <= parse(WxPre["refresh_token_expires_in"])

\* the record the call left in the store for its client
PostRecord == IF call.who = "ServiceNow" THEN call.post ELSE call.post[call.who]
PreRecord == IF call.who = "ServiceNow" THEN call.pre ELSE call.pre[call.who]

\* the call found a stored access token whose expiry is later than its clock
UnexpiredAccessTokenStored ==
    \/ /\ SNCall /\ Has(call.pre, "access_token") /\ Has(call.pre, "expiry_time")
       /\ call.pre["expiry_time"] * 1000 > call.t
    \/ /\ WxCall /\ Has(call.pre, call.who) /\ Has(WxPre, "access_token")
       /\ parse(WxPre["access_token_expires_in"]) > call.t

\* the Webex refresh token of the caller is not expired at the call's clock
WxRefreshTokenUnexpired ==
    WxCall => call.t <= parse(WxPre["refresh_token_expires_in"])

ServedFromStore ==
    /\ call.err = "none" /\ call.nx = 0 /\ call.post = call.pre
    /\ call.ret = PreRecord["access_token"]

----------------------------------------------------------------------------
(* C1..C10 *)

\* C1: in OAuth mode http_request issues the original request plus at most
\* one re-issue per logical call, whatever the server and the token endpoint
\* answer.
C1_AtMostOneRetry ==
    (integration = "ServiceNow" /\ snClient.use_oauth) => http.requests <= 2

C3_CachedTokenServed ==
    UnexpiredAccessTokenStored => ServedFromStore

\* C3 (amended): the same, provided that in the Webex client the stored
\* refresh-token expiry is not earlier than the current time.
C3_CachedTokenServedUnlessRefreshExpired ==
    (UnexpiredAccessTokenStored /\ WxRefreshTokenUnexpired) => ServedFromStore

C3_Witness ==
    /\ WxCall /\ UnexpiredAccessTokenStored /\ WxRefreshTokenUnexpired
    /\ call.ret \in Tokens /\ call.t > 0

\* C4 (as claimed): with an expired access token and a present, unexpired
\* refresh token stored, a call whose exchange is granted a token makes
\* exactly one exchange, has the new record in the store when it returns and
\* returns the new access_token; the immediately following call, at a clock
\* before the new expiry, returns that token from the store with no exchange.
C4_RefreshThenCached ==
    /\ (RefreshCaseOfCall /\ AnswerGrantsToken)
        => /\ call.err = "none" /\ call.nx = 1
           /\ call.ret = call.ans.body["access_token"]
           /\ Has(PostRecord, "access_token")
           /\ PostRecord["access_token"] = call.ret
    /\ (call.after # "none" /\ UnexpiredAccessTokenStored)
        => /\ call.ret = call.after /\ call.nx = 0 /\ call.err = "none"

\* C4 (amended): the same, where the following call of the Webex client
\* returns the token from the store provided the new record's refresh-token
\* expiry is not earlier than that call's clock.
C4_RefreshThenCachedUnlessRefreshExpired ==
    /\ (RefreshCaseOfCall /\ AnswerGrantsToken)
        => /\ call.err = "none" /\ call.nx = 1
           /\ call.ret = call.ans.body["access_token"]
           /\ Has(PostRecord, "access_token")
           /\ PostRecord["access_token"] = call.ret
    /\ (call.after # "none" /\ UnexpiredAccessTokenStored /\ WxRefreshTokenUnexpired)
        => /\ call.ret = call.after /\ call.nx = 0 /\ call.err = "none"

C4_Witness ==
    /\ WxCall /\ call.after # "none" /\ UnexpiredAccessTokenStored
    /\ WxRefreshTokenUnexpired /\ call.ret = call.after /\ call.nx = 0

\* C5: when the exchange of a get_access_token call is answered by a body
\* with an `error` field, the call fails and the store is left as it was, in
\* both clients and whatever the HTTP status.
C5_ErrorAnswerLeavesStore ==
    (call.who \in Clients /\ call.nx = 1 /\ call.ans.json /\ Has(call.ans.body, "error"))
    => (call.err # "none" /\ call.post = call.pre)

\* C6 (as claimed): with no token record stored for the client's key,
\* get_access_token fails.
C6_NoRecordFails ==
    (\/ SNCall /\ call.pre = Empty
     \/ WxCall /\ ~Has(call.pre, call.who))
    => call.err # "none"

\* C6 (amended): with no token record stored, the ServiceNow get_access_token
\* fails with the not-logged-in error (unless it is in IdP mode with login
\* credentials in memory), while the Webex get_access_token returns None
\* normally; neither makes an exchange nor changes the store.
C6_NoRecordFailsOrReturnsNone ==
    /\ (SNCall /\ call.pre = Empty
        /\ ~(call.self.authentication_url /\ call.self.logged_in))
        => (call.err = "not_logged_in" /\ call.nx = 0 /\ call.post = call.pre)
    /\ (WxCall /\ ~Has(call.pre, call.who))
        => (call.err = "none" /\ call.ret = None /\ call.nx = 0
            /\ call.post = call.pre)

C6_Witness ==
    /\ WxCall /\ call.who = "compliance_officer" /\ ~Has(call.pre, call.who)
    /\ Has(call.pre, "admin") /\ call.ret = None

\* C7: after a refresh exchange whose answer has an access_token and no
\* refresh_token, the stored record still holds the refresh_token stored
\* before the exchange.
C7_RefreshTokenCarriedForward ==
    (RefreshCaseOfCall /\ AnswerGrantsToken /\ ~Has(call.ans.body, "refresh_token"))
    => /\ Has(PostRecord, "refresh_token")
       /\ PostRecord["refresh_token"] = PreRecord["refresh_token"]

\* C8: in the Webex client, when the stored refresh-token expiry is earlier
\* than the current time, get_access_token fails with the refresh-token-
\* expired error, makes no exchange and leaves the store unchanged, whether or
\* not the stored access token is still unexpired.
C8_RefreshExpiredFails ==
    (WxCall /\ Has(call.pre, call.who)
     /\ parse(WxPre["refresh_token_expires_in"]) < call.t)
    => (call.err = "refresh_token_expired" /\ call.nx = 0 /\ call.post = call.pre)

C8_Witness ==
    /\ WxCall /\ Has(call.pre, call.who)
    /\ parse(WxPre["refresh_token_expires_in"]) < call.t
    /\ parse(WxPre["access_token_expires_in"]) > call.t
    /\ call.err = "refresh_token_expired"

\* C9: in basic-auth mode a 401 makes http_request fail at once: the request
\* is not re-issued, no token exchange is made and the context is unchanged.
C9_BasicAuth401Fails ==
    (integration = "ServiceNow" /\ ~snClient.use_oauth)
    => /\ http.pc # "retry"
       /\ (http.pc = "done" /\ http.act.status = 401)
            => /\ http.result = "error" /\ http.requests = 1
               /\ http.exchanges = 0 /\ snCtx = http.pre

C9_Witness ==
    /\ integration = "ServiceNow" /\ ~snClient.use_oauth
    /\ http.pc = "done" /\ http.act.status = 401 /\ http.result = "error"
    /\ Has(snCtx, "refresh_token") /\ Has(snCtx, "access_token")

\* the items of the pages of a request log, concatenated in request order
RECURSIVE ConcatItems(_)
ConcatItems(log) ==
    IF log = <<>> THEN <<>>
    ELSE ConcatItems(SubSeq(log, 1, Len(log) - 1)) \o log[Len(log)].page.items

Untagged(events) == [i \in 1..Len(events) |-> [created |-> events[i].created]]

\* C10: get_events_with_pagination returns the concatenation of the items of
\* the pages it requested, in request order; its first request uses the
\* caller's next_url and each later one the next-link of the response just
\* before it; the cursor it returns is the next-link of the last response, so
\* it is non-empty exactly when that response carried a next-link.
C10_PagesConcatenatedInOrder ==
    pg.pc = "done"
    => /\ Untagged(pg.ret_events) = ConcatItems(pg.log)
       /\ pg.log[1].url = pg.arg_url
       /\ \A i \in 2..Len(pg.log) :
            pg.log[i].url = pg.log[i - 1].page.next /\ pg.log[i].url # ""
       /\ pg.ret_url = pg.log[Len(pg.log)].page.next
       /\ (pg.ret_url # "") <=> (pg.log[Len(pg.log)].page.next # "")

C10_Witness ==
    /\ pg.pc = "done" /\ Len(pg.log) = 3 /\ pg.ret_url = "u2"
    /\ pg.log[2].url = "u1" /\ pg.log[3].url = "u2"
    /\ Len(pg.ret_events) >= 2
    /\ pg.ret_events[1].created # pg.ret_events[2].created

\* C11: get_events_with_pagination called with limit L returns at most L
\* events whenever every page it was served holds at most L items.
C11_AtMostLimitEvents ==
    (/\ pg.pc = "done"
     /\ \A i \in 1..Len(pg.log) : Len(pg.log[i].page.items) <= pg.limit)
    => Len(pg.ret_events) <= pg.limit

\* C18: a stored access token is never served from the store at or after its
\* true expiry instant (issue time + expires_in), in both clients.
C18_NeverServedAtOrAfterExpiry ==
    (call.who \in Clients /\ call.err = "none" /\ call.nx = 0 /\ call.ret # None)
    => call.t < trueExpiry[call.who]

\* C19: in the ServiceNow client without an IdP URL, with no valid cached
\* access token and no refresh_token key in the stored context,
\* get_access_token fails with the not-logged-in error, makes no exchange and
\* leaves the context as it was.
C19_NoRefreshTokenFails ==
    (/\ SNCall /\ ~call.self.authentication_url
     /\ ~(Has(call.pre, "access_token")
          /\ call.pre["expiry_time"] > date_to_timestamp(call.t))
     /\ ~Has(call.pre, "refresh_token"))
    => (call.err = "not_logged_in" /\ call.nx = 0 /\ call.post = call.pre)

C19_Witness ==
    /\ SNCall /\ ~call.self.authentication_url
    /\ Has(call.pre, "access_token") /\ ~Has(call.pre, "refresh_token")
    /\ call.pre["expiry_time"] <= date_to_timestamp(call.t)
    /\ call.err = "not_logged_in"

\* C20: a save of tokens for one Webex user replaces that user's record as a
\* whole (nothing of the old record is kept) and leaves the record of the
\* other user as it was.
C20_OtherUserUntouched ==
    (WxCall /\ call.nx = 1 /\ call.err = "none")
    => /\ \A u \in Users \ {call.who} :
            /\ Has(call.post, u) <=> Has(call.pre, u)
            /\ Has(call.pre, u) => call.post[u] = call.pre[u]
       /\ DOMAIN call.post \subseteq Users
       /\ DOMAIN call.post[call.who] =
            {"access_token_expires_in", "refresh_token_expires_in"}
            \cup (DOMAIN call.ans.body \cap {"access_token", "refresh_token"})
       /\ \A k \in DOMAIN call.ans.body \cap {"access_token", "refresh_token"} :
            call.post[call.who][k] = call.ans.body[k]

C20_Witness ==
    /\ WxCall /\ call.nx = 1 /\ call.err = "none"
    /\ \E u \in Users \ {call.who} :
        Has(call.pre, u) /\ Has(call.pre[u], "access_token")
    /\ Has(WxPre, "refresh_token")
    /\ ~Has(call.post[call.who], "refresh_token")

\* the persisted last run as the current fetch-events invocation found it
PersistedBefore == IF fx.fresh THEN Empty ELSE fx.base
FetchCompleted == fx.pc = "idle" /\ fx.outcome = "ok"

\* C12: when a fetch-events cycle fails (a page request of any event type
\* raises, or the send raises), the persisted last run is what it was before
\* the invocation, for all three event types; nothing is persisted while the
\* cycle runs either.
C12_FailedCycleKeepsCheckpoint ==
    fx.outcome \in {"running", "failed"} => lastRun = PersistedBefore

C12_Witness ==
    /\ fx.outcome = "failed" /\ fx.i = 3 /\ ~fx.fresh
    /\ lastRun["admin_audits"].next_url = "u1"
    /\ lastRun["security_audits"].since_datetime = 3

\* C14: for each event type, since_datetime of the persisted last run never
\* decreases from one completed fetch_events cycle to the next, whatever
\* pages the source serves.
C14_SinceNeverDecreases ==
    (FetchCompleted /\ ~fx.fresh)
    => \A k \in KindSet :
         lastRun[k].since_datetime >= fx.base[k].since_datetime

C16_ResumesFromStoredCursor ==
    /\ \A k \in DOMAIN fx.res :
        (~fx.fresh /\ fx.base[k].next_url # "")
        => fx.res[k].request = [full_url |-> fx.base[k].next_url]
    /\ FetchCompleted
        => \A k \in KindSet :
             (lastRun[k].next_url # "" /\ fx.res[k].n > 0)
             => lastRun[k].since_datetime = fx.res[k].last_created + 1

C16_Witness ==
    /\ FetchCompleted /\ ~fx.fresh
    /\ fx.base["security_audits"].next_url = "u1"
    /\ fx.base["security_audits"].since_datetime = 3
    /\ fx.res["security_audits"].request = [full_url |-> "u1"]
    /\ lastRun["admin_audits"].next_url = "u1"
    /\ fx.res["admin_audits"].n > 0

\* C17: after every completed fetch_events cycle the next_url recorded for
\* each event type is the cursor its pagination returned in this cycle: ""
\* exactly when the last page response had no next-link, whatever cursor was
\* stored before.
C17_CursorOfThisCycleStored ==
    FetchCompleted
    => \A k \in KindSet :
         /\ lastRun[k].next_url = fx.res[k].ret_url
         /\ lastRun[k].next_url = fx.res[k].last_next

C17_Witness ==
    /\ FetchCompleted /\ ~fx.fresh
    /\ fx.base["admin_audits"].next_url = "u1"
    /\ lastRun["admin_audits"].next_url = ""
    /\ lastRun["security_audits"].next_url = "u1"

\* how often the event of the type k created at c has been sent
TimesDelivered(k, c) == Get(delivered, <<KindEventType(k), c>>, 0)

\* the persisted last run has moved past the creation time c for the type k
MovedPast(k, c) ==
    /\ lastRun # Empty
    /\ c < lastRun[k].since_datetime

\* C13: against a source listing its events in strictly ascending
\* millisecond creation time, over cycles that complete and persist the last
\* run or stop before persisting it, no event the source served in a fetched
\* window is skipped (the persisted since_datetime never moves past an event
\* that was served and not sent), and no event is sent twice unless an
\* invocation was stopped between the send and setLastRun.
C13_NoSkipNoDuplicate ==
    /\ \A x \in history.fetched :
          MovedPast(x.kind, x.created) => TimesDelivered(x.kind, x.created) >= 1
    /\ ~history.crashed =>
          \A x \in history.fetched : TimesDelivered(x.kind, x.created) <= 1

\* C13 for the cycles that began with a stored last run
SourceStoredNoSkip ==
    \A x \in history.fetched :
        (~x.fresh /\ MovedPast(x.kind, x.created)) =>
            TimesDelivered(x.kind, x.created) >= 1

\* C13, second half alone
SourceNoDuplicate ==
    ~history.crashed => \A x \in history.fetched : TimesDelivered(x.kind, x.created) <= 1

\* C22: every event get_events_with_pagination returns, from whichever page
\* it came, carries source_log_type equal to the event-type label of the page
\* function used and _time equal to its own created value.
C22_EveryEventTagged ==
    pg.pc = "done"
    => /\ Len(pg.ret_events) = Len(ConcatItems(pg.log))
       /\ \A i \in 1..Len(pg.ret_events) :
            /\ pg.ret_events[i].source_log_type = pg.event_type
            /\ pg.ret_events[i]._time = pg.ret_events[i].created
            /\ pg.ret_events[i]._time = ConcatItems(pg.log)[i].created

C22_Witness ==
    /\ pg.pc = "done" /\ Len(pg.log) >= 2
    /\ pg.log[1].page.items # <<>> /\ pg.log[2].page.items # <<>>
    /\ pg.event_type = "Security Audit Events"
    /\ pg.ret_events[Len(pg.ret_events)].source_log_type = "Security Audit Events"

\* the events fetch_events got for the event types before the i-th, in the
\* order of event_type_to_client_function
RECURSIVE EventsOfKindsBefore(_, _)
EventsOfKindsBefore(res, i) ==
    IF i <= 1 THEN <<>>
    ELSE EventsOfKindsBefore(res, i - 1) \o res[EventKinds[i - 1]].events

\* C21: within one fetch_events cycle the event types are processed in the
\* order admin_audits, security_audits, compliance_officer_events (the types
\* done so far are the first of that order); the entry of a type not yet
\* processed is still what the cycle started with, and the entry of a
\* processed type is what its own processing made of it; the combined event
\* list is the concatenation of the per-type lists in that order.
C21_KindsInOrderEachItsOwnEntry ==
    fx.pc \in {"kinds", "collected"}
    => /\ DOMAIN fx.res = {EventKinds[j] : j \in 1..(fx.i - 1)}
       /\ DOMAIN fx.last_run = KindSet
       /\ \A j \in fx.i..3 : fx.last_run[EventKinds[j]] = fx.base[EventKinds[j]]
       /\ \A j \in 1..(fx.i - 1) :
            LET k == EventKinds[j] IN
            /\ fx.last_run[k].next_url = fx.res[k].ret_url
            /\ fx.last_run[k].since_datetime =
                  IF fx.res[k].n > 0 THEN fx.res[k].last_created + 1
                  ELSE fx.base[k].since_datetime
            /\ \A n \in 1..Len(fx.res[k].events) :
                  fx.res[k].events[n].source_log_type = KindEventType(k)
       /\ fx.all_events = EventsOfKindsBefore(fx.res, fx.i)

C21_Witness ==
    /\ fx.pc = "collected" /\ ~fx.fresh
    /\ fx.res["admin_audits"].n = 1 /\ fx.res["security_audits"].n = 0
    /\ fx.res["compliance_officer_events"].n = 1
    /\ fx.last_run["security_audits"] = fx.base["security_audits"]
    /\ fx.last_run["admin_audits"] # fx.base["admin_audits"]
    /\ Len(fx.all_events) = 2
    /\ fx.all_events[1].source_log_type = "Admin Audit Events"
    /\ fx.all_events[2].source_log_type = "Events"

\* C26: in fetch-events the last run is set only after the events of the
\* cycle have been sent: whenever the persisted last run differs from what
\* the invocation found, the invocation has completed and the events it sent
\* are all the events it fetched, so for every event type whose
\* since_datetime moved from where the cycle started, the event it moved past
\* is among the events sent.
C26_PersistedOnlyAfterSent ==
    lastRun # PersistedBefore
    => /\ FetchCompleted
       /\ sink = EventsOfKindsBefore(fx.res, 4)
       /\ \A k \in KindSet :
            lastRun[k].since_datetime # fx.base[k].since_datetime
            => \E n \in 1..Len(sink) :
                 /\ sink[n].source_log_type = KindEventType(k)
                 /\ sink[n].created + 1 = lastRun[k].since_datetime

C26_Witness ==
    /\ FetchCompleted /\ ~fx.fresh
    /\ lastRun["security_audits"].since_datetime
         # PersistedBefore["security_audits"].since_datetime
    /\ Len(sink) = 2
    /\ sink[2].source_log_type = "Security Audit Events"

\* C28: after any sequence of ServiceNowClient operations (constructor,
\* login, get_access_token, _get_access_token_idp, http_request), a stored
\* context that holds access_token also holds expiry_time, and no
\* get_access_token call fails on reading a missing expiry_time.
C28_AccessTokenHasExpiryTime ==
    /\ Has(snCtx, "access_token") => Has(snCtx, "expiry_time")
    /\ call.err # "KeyError"

C28_Witness ==
    /\ integration = "ServiceNow"
    /\ snClient.authentication_url
    /\ Has(snCtx, "access_token") /\ Has(snCtx, "expiry_time")
    /\ ~Has(snCtx, "refresh_token")
    /\ call.who = "ServiceNow" /\ call.nx = 0 /\ call.ret = snCtx["access_token"]

\* C23: in IdP mode (authentication_url set) a successful token exchange
\* persists a record holding access_token and expiry_time and nothing else;
\* a client instance on which login has not been called fails with the
\* not-logged-in error, makes no exchange and leaves the store as it was
\* whenever no valid cached token is stored, both when get_access_token is
\* called directly and when http_request calls it (no request is sent).
C23_IdpRecordAndNotLoggedIn ==
    /\ (call.who = "ServiceNow" /\ call.self.authentication_url)
       => /\ (call.nx = 1 /\ call.err = "none" /\ call.ret # None)
             => /\ DOMAIN call.post = {"access_token", "expiry_time"}
                /\ call.post["access_token"] = call.ret
          /\ (~call.self.logged_in /\ ~SNCachedTokenValid(call.pre, call.t))
             => /\ call.err = "not_logged_in"
                /\ call.nx = 0
                /\ call.post = call.pre
    /\ (/\ integration = "ServiceNow" /\ snClient.use_oauth
        /\ snClient.authentication_url /\ ~snClient.logged_in)
       => /\ (http.pc = "response" /\ http.requests = 1)
             => SNCachedTokenValid(http.pre, now)
          /\ (http.pc = "done" /\ http.requests = 0)
             => /\ ~SNCachedTokenValid(http.pre, now)
                /\ http.result = "error" /\ http.exchanges = 0
                /\ snCtx = http.pre

C23_Witness ==
    /\ call.who = "ServiceNow" /\ call.self.authentication_url
    /\ ~call.self.logged_in
    /\ DOMAIN call.pre = {"access_token", "expiry_time"}
    /\ ~SNCachedTokenValid(call.pre, call.t)
    /\ call.err = "not_logged_in"

\* C25: when http_request retries after a 401, the request it sends again is
\* the request of the original call: same method, URL, query parameters,
\* per-call headers, json_data, data, files, auth, timeout and
\* return_empty_response.
C25_RetrySendsSameRequest ==
    (integration = "ServiceNow" /\ http.pc = "response" /\ http.requests >= 2)
    => http.args = http.orig

\* C25 for the arguments the recursive call does pass
RetryKeepsUrlAndParams ==
    (integration = "ServiceNow" /\ http.pc = "response" /\ http.requests >= 2)
    => /\ http.args.method = http.orig.method
       /\ http.args.url_suffix = http.orig.url_suffix
       /\ http.args.full_url = http.orig.full_url
       /\ http.args.params = http.orig.params

\* the refresh token stored for the user has expired (line 133)
RefreshTokenExpired(user) ==
    /\ integration = "CiscoWebex"
    /\ Has(wxCtx, user)
    /\ now > parse(wxCtx[user]["refresh_token_expires_in"])

\* C24: from any state in which the stored refresh token of the admin or of
\* the compliance_officer user has expired, the start-authorization and
\* complete-authorization commands can still be executed: an invocation of
\* main() can get past the construction of the two clients to its command.
C24_CommandsRunAfterRefreshExpiry ==
    /\ (wxMain = "admin" /\ RefreshTokenExpired("admin"))
       => ENABLED (WxAdminClientInit /\ wxMain' = "compliance_officer")
    /\ (wxMain = "compliance_officer" /\ RefreshTokenExpired("compliance_officer"))
       => ENABLED (WxComplianceOfficerClientInit /\ wxMain' = "command")

\* an invocation of main() is at a point where the expired refresh token of
\* the user is still to be read by the constructor of the user's client
StuckOn(user) ==
    /\ RefreshTokenExpired(user)
    /\ \/ wxMain = "admin"
       \/ wxMain = "compliance_officer" /\ user = "compliance_officer"

\* what main() does instead: once an invocation starts with the refresh
\* token of a user expired, no invocation reaches its command any more and
\* the user's record stays as it is
RefreshExpiryBlocksCommands ==
    [][\A u \in Users :
         StuckOn(u) => (StuckOn(u)' /\ wxMain' # "command" /\ wxCtx'[u] = wxCtx[u])]_vars

SavedRecord(u) == WxContextOf(saving[u].result, saving[u].t)
BothSaved == \A u \in Users : saving[u].pc = "done"

\* C27: when two invocations save tokens for different Webex users and their
\* get-context and set-context steps interleave in any way, the store holds
\* both new records once both have finished.
C27_BothRecordsKept ==
    BothSaved => \A u \in Users : Has(wxCtx, u) /\ wxCtx[u] = SavedRecord(u)

\* C27 for two invocations of which one read the store after the other had
\* written it
SavesInTurnKeepBoth ==
    (BothSaved /\ \E u \in Users : saving[u].local # Empty)
    => \A u \in Users : Has(wxCtx, u) /\ wxCtx[u] = SavedRecord(u)

============================================================================
